---- MODULE Spec2Model ----
(***************************************************************************)
(* Artifact cache and remote synchronisation layer of pyobo:               *)
(*   src/src/pyobo/aws.py                     (S3 sync engine)             *)
(*   src/src/pyobo/mappings/extract_names.py  (cached id->name mapping)    *)
(*   src/src/pyobo/version.py                 (version string)             *)
(*                                                                         *)
(* Strings that the code inspects (keys, paths, suffixes, file lines) are  *)
(* sequences of tokens, so that endswith, split("/") and the tab-separated *)
(* file format are computed and not assumed.                               *)
(***************************************************************************)
EXTENDS Naturals, Sequences, FiniteSets, TLC

\* ------------------------------------------------------------------ bounds

\* number of top-level operations one behaviour invokes one after the other
MaxRuns == 2

\* ------------------------------------------------------- values and strings

SEP == "/"
TAB == "\t"

\* an optional argument: None, or a given value
None == [some |-> FALSE, val |-> <<>>]
Some(v) == [some |-> TRUE, val |-> v]
NoneSet == [some |-> FALSE, val |-> {}]

Prefixes == {"go", "hp"}

\* sorted(...) over source identifiers: "go" < "hp"
SortedPrefixes == <<"go", "hp">>

\* two of the six blocks in each other's place
KindsSwapped == <<"names", "xrefs", "synonyms", "relations", "properties", "alts">>

\* the artifact kinds, in the order upload_artifacts_for_prefix handles them
Kinds == <<"names", "synonyms", "xrefs", "relations", "properties", "alts">>

NKinds == Len(Kinds)

\* os.path.join(a, b, ...) on relative components
RECURSIVE os_path_join(_)
os_path_join(parts) ==
    IF Len(parts) = 1 THEN Head(parts)
    ELSE Head(parts) \o <<SEP>> \o os_path_join(Tail(parts))

\* str.endswith
endswith(s, suffix) ==
    /\ Len(suffix) <= Len(s)
    /\ SubSeq(s, Len(s) - Len(suffix) + 1, Len(s)) = suffix

\* str.split("/")[0]
RECURSIVE split_first(_)
split_first(s) ==
    IF s = <<>> \/ Head(s) = SEP THEN <<>>
    ELSE <<Head(s)>> \o split_first(Tail(s))

\* the permutations of a finite set, as sequences
Perms(S) ==
    { f \in [1..Cardinality(S) -> S] : \A i, j \in DOMAIN f : i # j => f[i] # f[j] }

\* file contents are sequences of lines, a line a sequence of characters
Blob(tag) == << <<tag>> >>

Put(f, k, v) == [x \in DOMAIN f \cup {k} |-> IF x = k THEN v ELSE f[x]]

\* `if x:` on an optional string: None and "" are falsy
truthy_str(o) == o.some /\ o.val # <<>>

\* `if x:` on an optional set: None and set() are falsy
truthy_set(o) == o.some /\ o.val # {}

\* no upload_artifacts_for_prefix call is running
NoUfp == [phase |-> "none", prefix |-> "", version |-> "", client |-> "None", k |-> 1]

\* ------------------------------------------------------------------- state

VARIABLES
    remote,             \* the bucket: key -> content
    fs,                 \* the local filesystem: path -> content
    cached,             \* the source ids iter_cached_obo yields
    op,                 \* the top-level operation invoked last
    status,             \* "idle", "running", "returned" or "raised"
    err,                \* the exception that reached the caller, or "none"
    runs,               \* top-level operations invoked so far
    suffix,             \* download_artifacts: its suffix argument
    listing,            \* all_objects["Contents"], as keys in listing order
    idx,                \* position of the loop in listing
    issued,             \* keys s3_client.download_file was called with, this call
    prevPassed,         \* keys that passed the filter of an earlier returned download
    calls,              \* the get_id_name_mapping calls made, in order
    whitelist,          \* upload_artifacts: its whitelist argument
    blacklist,          \* upload_artifacts: its blacklist argument
    uploaded_prefixes,  \* upload_artifacts: the prefixes found in the listing
    queue,              \* upload_artifacts: the sorted sources still to visit
    s3_client,          \* upload_artifacts: its client after lines 64-65
    listed,             \* upload_artifacts: the keys of its listing
    ufp,                \* the running upload_artifacts_for_prefix call
    built,              \* where boto3.client("s3") was called, this operation
    derived,            \* <<source, kind>> of each derivation called, this operation
    uploads,            \* each upload_file call made, this operation
    invoked,            \* sources upload_artifacts called upload_artifacts_for_prefix for
    uploadedBefore,     \* sources an earlier operation uploaded an object of
    partial,            \* sources whose earlier upload raised after 1 to 5 objects
    fs0,                \* the local filesystem before the first operation
    rows,               \* list_artifacts: the rows handed to tabulate
    ret,                \* the get_version calls made, each with what it gave
    git_ran             \* for each get_version call, whether git was run

dlVars == <<suffix, listing, idx, issued, prevPassed>>

cmVars == <<calls>>

upArgs == <<whitelist, blacklist, uploaded_prefixes, queue, s3_client, listed>>

upLogs == <<built, derived, uploads, invoked>>

upHist == <<uploadedBefore, partial>>

upVars == <<upArgs, ufp, upLogs, upHist>>

callVars == <<op, status, err, runs>>

auxVars == <<fs0, rows, ret, git_ran>>

vars == <<remote, fs, cached, callVars, dlVars, cmVars, upVars, auxVars>>

\* ------------------------------------------------- the cached id->name mapping

\* str.join on "\t"
RECURSIVE join_tab(_)
join_tab(fields) ==
    IF Len(fields) = 1 THEN Head(fields)
    ELSE Head(fields) \o <<TAB>> \o join_tab(Tail(fields))

\* str.split("\t")
RECURSIVE split_tab(_)
split_tab(line) ==
    IF line = <<>> THEN << <<>> >>
    ELSE IF Head(line) = TAB THEN << <<>> >> \o split_tab(Tail(line))
    ELSE LET rest == split_tab(Tail(line))
         IN  << <<Head(line)>> \o Head(rest) >> \o Tail(rest)

\* the order a mapping's items are written in
IdOrder == << <<"1">>, <<"2">> >>

Ok(m) == [ok |-> TRUE, val |-> m, err |-> "none"]
Raise(e) == [ok |-> FALSE, val |-> <<>>, err |-> e]

\* the file a mapping is persisted as: the header line, then one
\* identifier<TAB>value line per item
write_map_tsv(header, rv) ==
    LET ids == SelectSeq(IdOrder, LAMBDA i : i \in DOMAIN rv)
    IN  <<join_tab(header)>> \o [n \in 1..Len(ids) |-> ids[n] \o <<TAB>> \o rv[ids[n]]]

\* parse of a cache file: first line the header, then two-column rows; a
\* missing header, no data row, or a row that is not two columns is
\* MalformedCacheFile
open_map_tsv(content, header) ==
    IF content = <<>> \/ Head(content) # join_tab(header)
      THEN Raise("MalformedCacheFile")
    ELSE LET recs == [n \in 1..(Len(content) - 1) |-> split_tab(content[n + 1])]
         IN  IF recs = <<>> \/ \E n \in DOMAIN recs : Len(recs[n]) # 2
               THEN Raise("MalformedCacheFile")
               ELSE Ok([k \in { recs[n][1] : n \in DOMAIN recs } |->
                          LET last == CHOOSE n \in DOMAIN recs :
                                        /\ recs[n][1] = k
                                        /\ \A m \in DOMAIN recs : recs[m][1] = k => m <= n
                          IN  recs[last][2]])

\* the read-through cache around a compute function: `compute` is what the
\* wrapped function returns or raises if it is invoked
cached_mapping(fsys, path, header, compute) ==
    IF path \in DOMAIN fsys
      THEN [fs |-> fsys, res |-> open_map_tsv(fsys[path], header),
            computed |-> FALSE, wrote |-> FALSE]
    ELSE IF ~compute.ok
      THEN [fs |-> fsys, res |-> compute, computed |-> TRUE, wrote |-> FALSE]
    ELSE [fs |-> Put(fsys, path, write_map_tsv(header, compute.val)), res |-> compute,
          computed |-> TRUE, wrote |-> TRUE]

RAW_DIRECTORY == <<"raw">>

\* the file `name` in the directory of source `prefix`
prefix_directory_join(prefix, name) == os_path_join(<<RAW_DIRECTORY, <<prefix>>, name>>)

\* extract_names.py line 21
id_name_path(prefix) == prefix_directory_join(prefix, <<prefix, ".", "mapping", ".tsv">>)

\* extract_names.py line 23
id_name_header(prefix) == << <<prefix, "_id">>, <<"name">> >>

\* the wrapped function run on its own, without the cache
uncached_mapping(fsys, prefix, compute) ==
    [fs |-> fsys, res |-> compute, computed |-> TRUE, wrote |-> FALSE]

\* extract_names.py lines 19-28
get_id_name_mapping(fsys, prefix, compute) ==
    cached_mapping(fsys, id_name_path(prefix), id_name_header(prefix), compute)

\* ------------------------------------------------------- download_artifacts

\* s3_client.list_objects(Bucket=bucket)["Contents"]: the orders a listing can
\* come in; a bucket without objects has no "Contents" entry at all
list_objects == Perms(DOMAIN remote)

has_contents == DOMAIN remote # {}

\* line 47: `suffix and not key.endswith(suffix)`
suffix_mismatch(sfx, key) == truthy_str(sfx) /\ ~endswith(key, sfx.val)

\* line 48: the branch taken on a mismatch is `pass`: the entry is not skipped
suffix_skips(sfx, key) == FALSE

\* line 49
download_path(key) == os_path_join(<<RAW_DIRECTORY, key>>)

\* the existence test left out: every listed object is fetched again
never_downloaded(fsys, path) == FALSE

\* lines 51-52: `if os.path.exists(path): continue`
already_downloaded(fsys, path) == path \in DOMAIN fsys

CanInvoke == status # "running" /\ runs < MaxRuns

\* the keys of a listing the suffix filter lets through
passing(sfx, l) == { l[i] : i \in { j \in DOMAIN l : ~suffix_mismatch(sfx, l[j]) } }

\* lines 43-44: the call, up to the listing
download_artifacts_call(sfx) ==
    /\ CanInvoke
    /\ runs' = runs + 1
    /\ op' = "download_artifacts"
    /\ suffix' = sfx
    /\ issued' = {}
    /\ idx' = 1
    /\ IF has_contents
         THEN /\ \E l \in list_objects : listing' = l
              /\ status' = "running"
              /\ err' = "none"
         ELSE /\ listing' = <<>>
              /\ status' = "raised"
              /\ err' = "KeyError"
    /\ prevPassed' = IF op = "download_artifacts" /\ status = "returned"
                       THEN prevPassed \cup passing(suffix, listing)
                       ELSE prevPassed
    /\ UNCHANGED <<remote, fs, cached, cmVars, auxVars, upVars>>

\* the loop left after its first iteration
dl_stop == status' = "returned" /\ UNCHANGED idx

\* end of one loop iteration: next entry, or return
dl_advance ==
    IF idx = Len(listing)
      THEN status' = "returned" /\ UNCHANGED idx
      ELSE idx' = idx + 1 /\ UNCHANGED status

\* lines 45-54: one iteration of the loop
download_artifacts_entry ==
    /\ op = "download_artifacts" /\ status = "running"
    /\ LET key == listing[idx]
           path == download_path(key)
       IN  IF suffix_skips(suffix, key) \/ already_downloaded(fs, path)
             THEN dl_advance /\ UNCHANGED <<fs, issued, err>>
             ELSE /\ issued' = issued \cup {key}
                  /\ \E ok \in BOOLEAN :
                       IF ok
                         THEN /\ fs' = Put(fs, path, remote[key])
                              /\ dl_advance
                              /\ UNCHANGED err
                         ELSE /\ status' = "raised"
                              /\ err' = "RemoteTransportError"
                              /\ UNCHANGED <<fs, idx>>
    /\ UNCHANGED <<remote, cached, op, runs, suffix, listing, prevPassed, cmVars, auxVars, upVars>>

\* the objects a download behaviour starts from
DlKeys ==
    { <<"go", SEP, "cache", SEP, "go", ".", "mapping", ".tsv">>,
      <<"go", SEP, "go", ".", "properties", ".tsv">>,
      <<"hp", SEP, "hp", ".", "obo">> }

Suffixes ==
    { None, Some(<<>>), Some(<<".tsv">>), Some(<<"mapping", ".tsv">>), Some(<<".", "obo">>) }

InitCall ==
    /\ op = "none" /\ status = "idle" /\ err = "none" /\ runs = 0
    /\ suffix = None /\ listing = <<>> /\ idx = 1
    /\ issued = {} /\ prevPassed = {}
    /\ calls = <<>>
    /\ whitelist = NoneSet /\ blacklist = NoneSet
    /\ uploaded_prefixes = {} /\ queue = <<>>
    /\ s3_client = "None" /\ listed = {}
    /\ ufp = NoUfp
    /\ built = <<>> /\ derived = <<>> /\ uploads = <<>> /\ invoked = <<>>
    /\ uploadedBefore = {} /\ partial = {}
    /\ fs0 = fs /\ rows = <<>> /\ ret = <<>> /\ git_ran = <<>>

InitDownload ==
    /\ \E S \in SUBSET DlKeys : remote = [k \in S |-> Blob("remote")]
    /\ \E T \in SUBSET DlKeys :
         fs = [p \in { download_path(k) : k \in T } |-> Blob("stale")]
    /\ cached = {}
    /\ InitCall

NextDownload ==
    \/ \E sfx \in Suffixes : download_artifacts_call(sfx)
    \/ download_artifacts_entry

SpecDownload == InitDownload /\ [][NextDownload]_vars

\* ---------------------------------------------------- get_id_name_mapping calls

\* what the wrapped function can return or raise: the identifier -> name
\* dictionary of the graph (names may hold any character), or the loader's error
Names == { <<"x">>, <<"y">>, <<"x", TAB, "y">> }

Mappings ==
    UNION { [D -> Names] : D \in SUBSET { IdOrder[i] : i \in DOMAIN IdOrder } }

\* a node of the graph of a source: prefix, colon, local identifier
node_of(prefix, id) == <<prefix, ":">> \o id

\* the graphs get_obo_graph can give: nodes of the source, each with a name
\* or without one
Graphs(prefix) ==
    UNION { [{ node_of(prefix, i) : i \in D } -> { None } \cup { Some(n) : n \in Names }] :
              D \in SUBSET { IdOrder[i] : i \in DOMAIN IdOrder } }

\* extract_names.py lines 37-43: the (identifier, name) pairs of the named
\* nodes, in node order; len(f'{prefix}:') is two tokens
iterate_identifier_names(graph, prefix) ==
    LET nodes == SelectSeq([i \in DOMAIN IdOrder |-> node_of(prefix, IdOrder[i])],
                           LAMBDA n : n \in DOMAIN graph /\ graph[n].some)
    IN  [i \in DOMAIN nodes |-> <<SubSeq(nodes[i], 3, Len(nodes[i])), graph[nodes[i]].val>>]

\* dict(pairs): a later pair replaces an earlier one of the same key
dict(pairs) ==
    [k \in { pairs[i][1] : i \in DOMAIN pairs } |->
        LET last == CHOOSE i \in DOMAIN pairs :
                      pairs[i][1] = k /\ \A j \in DOMAIN pairs : pairs[j][1] = k => j <= i
        IN  pairs[last][2]]

\* the order the keys of a dictionary are iterated in: identifiers as in
\* IdOrder; names in a fixed order (a dictionary keyed by names has one
\* identifier per name, so its inversion does not depend on the order)
KeyOrder == IdOrder \o << <<"x">>, <<"y">>, <<"x", TAB, "y">> >>

\* d.items()
items(d) ==
    LET ks == SelectSeq(KeyOrder, LAMBDA k : k \in DOMAIN d)
    IN  [n \in DOMAIN ks |-> <<ks[n], d[ks[n]]>>]

\* an inversion in which the first identifier of a name is kept
dict_invert_first(d) ==
    [n \in { d[i] : i \in DOMAIN d } |->
        LET its == items(d)
            first == CHOOSE i \in DOMAIN its :
                       its[i][2] = n /\ \A j \in DOMAIN its : its[j][2] = n => i <= j
        IN  its[first][1]]

\* extract_names.py line 34: {v: k for k, v in d.items()}
dict_invert(d) ==
    dict([i \in DOMAIN items(d) |-> <<items(d)[i][2], items(d)[i][1]>>])

\* extract_names.py lines 31-34
get_name_id_mapping(fsys, prefix, compute) ==
    LET r == get_id_name_mapping(fsys, prefix, compute)
    IN  [fs |-> r.fs, d |-> r.res,
         res |-> IF r.res.ok THEN Ok(dict_invert(r.res.val)) ELSE r.res]

ComputeOutcomes ==
    UNION { { Ok(dict(iterate_identifier_names(g, p))) : g \in Graphs(p) } : p \in Prefixes }
        \cup { Raise("LoaderError") }

\* the version resolver (pyobo.api.utils.get_version): one token per source
api_get_version(prefix) == IF prefix = "go" THEN "v1" ELSE "v2"

\* the versions a source is released in
Versions == { "v1", "v2" }

\* a top-level call of get_id_name_mapping(prefix); `version` is the version
\* of the source at the time of the call, which the function is not given
get_id_name_mapping_call(prefix, version, compute) ==
    /\ CanInvoke
    /\ runs' = runs + 1
    /\ op' = "get_id_name_mapping"
    /\ LET r == get_id_name_mapping(fs, prefix, compute)
       IN  /\ fs' = r.fs
           /\ status' = IF r.res.ok THEN "returned" ELSE "raised"
           /\ err' = r.res.err
           /\ calls' = Append(calls,
                 [prefix |-> prefix, version |-> version,
                  path |-> id_name_path(prefix),
                  existed |-> id_name_path(prefix) \in DOMAIN fs,
                  file |-> IF id_name_path(prefix) \in DOMAIN fs
                             THEN fs[id_name_path(prefix)] ELSE <<>>,
                  computed |-> r.computed, wrote |-> r.wrote, res |-> r.res,
                  fn |-> "get_id_name_mapping", inv |-> r.res])
    /\ UNCHANGED <<remote, cached, dlVars, upVars, auxVars>>

\* a top-level call of get_name_id_mapping(prefix): the call of
\* get_id_name_mapping it makes is noted with what it gave (res) and with
\* what the caller gets back (inv)
get_name_id_mapping_call(prefix, version, compute) ==
    /\ CanInvoke
    /\ runs' = runs + 1
    /\ op' = "get_name_id_mapping"
    /\ LET r == get_id_name_mapping(fs, prefix, compute)
           q == get_name_id_mapping(fs, prefix, compute)
       IN  /\ fs' = q.fs
           /\ status' = IF q.res.ok THEN "returned" ELSE "raised"
           /\ err' = q.res.err
           /\ calls' = Append(calls,
                 [prefix |-> prefix, version |-> version,
                  path |-> id_name_path(prefix),
                  existed |-> id_name_path(prefix) \in DOMAIN fs,
                  file |-> IF id_name_path(prefix) \in DOMAIN fs
                             THEN fs[id_name_path(prefix)] ELSE <<>>,
                  computed |-> r.computed, wrote |-> r.wrote, res |-> q.d,
                  fn |-> "get_name_id_mapping", inv |-> q.res])
    /\ UNCHANGED <<remote, cached, dlVars, upVars, auxVars>>

\* the cache files a behaviour can start from: none, a file written
\* earlier, and files that do not parse
CacheFiles(prefix) ==
    LET h == join_tab(id_name_header(prefix))
    IN  { write_map_tsv(id_name_header(prefix), m) : m \in { n \in Mappings : DOMAIN n # {} /\ \A i \in DOMAIN n : n[i] = <<"x">> } }
          \cup { <<h>>,                                  \* header, no data row
                 <<>>,                                   \* empty file
                 <<h, <<"1">> >>,                        \* a one-column row
                 <<h, <<"1", TAB, "x">>, <<"2", TAB, "x", TAB, "y">> >>,
                 << <<"1", TAB, "x">> >> }               \* no header

InitCache ==
    /\ remote = << >>
    /\ cached = {}
    /\ \E P \in SUBSET Prefixes :
         \E f \in [P -> UNION { CacheFiles(p) : p \in P }] :
            /\ \A p \in P : f[p] \in CacheFiles(p)
            /\ fs = [q \in { id_name_path(p) : p \in P } |->
                        f[CHOOSE p \in P : id_name_path(p) = q]]
    /\ InitCall

NextCache ==
    \E prefix \in Prefixes, version \in Versions, compute \in ComputeOutcomes :
        get_id_name_mapping_call(prefix, version, compute)

SpecCache == InitCache /\ [][NextCache]_vars

\* calls of get_name_id_mapping, each source at the version the resolver gives
NextNames ==
    \E prefix \in Prefixes, compute \in ComputeOutcomes :
        get_name_id_mapping_call(prefix, api_get_version(prefix), compute)

SpecNames == InitCache /\ [][NextNames]_vars

\* ------------------------------------------------------ upload: paths and keys

\* the file name of an artifact kind of a source
file_name(prefix, kind) ==
    <<prefix, ".", IF kind = "names" THEN "mapping" ELSE kind, ".tsv">>

\* the versioned cache path resolver (pyobo.utils.path.get_cache_path)
get_cache_path(prefix, kind, version) ==
    os_path_join(<<RAW_DIRECTORY, <<prefix>>, <<version>>, file_name(prefix, kind)>>)

\* pathlib's Path.name: what follows the last separator
RECURSIVE path_name(_)
path_name(path) ==
    IF \E i \in DOMAIN path : path[i] = SEP THEN path_name(Tail(path)) ELSE path

\* a key built without the source id
unprefixed_key(prefix, kind, path) == os_path_join(<< <<"cache">>, path_name(path) >>)

\* aws.py lines 94, 103, 112, 121, 130, 139
remote_key(prefix, kind, path) ==
    IF kind = "properties"
      THEN os_path_join(<< <<prefix>>, path_name(path) >>)
      ELSE os_path_join(<< <<prefix>>, <<"cache">>, path_name(path) >>)

\* the s3_client argument of the upload_file call of a kind: aws.py lines 96,
\* 105, 114, 123, 132 pass the client on, line 141 passes none
passed_client(kind, client) == IF kind = "alts" THEN "None" ELSE client

\* the existence test left out
never_missing(fsys, path) == FALSE

\* aws.py lines 92-93 (and 101, 110, 119, 128, 137): `if not path.exists()`
artifact_missing(fsys, path) == path \notin DOMAIN fsys

\* the remote test left out
never_uploaded(prefix, uploaded) == FALSE

\* aws.py line 70: `prefix in uploaded_prefixes`
already_uploaded(prefix, uploaded) == <<prefix>> \in uploaded

\* aws.py line 72: `whitelist and prefix not in whitelist`
not_whitelisted(prefix, wl) == truthy_set(wl) /\ prefix \notin wl.val

\* aws.py line 74: `blacklist and prefix in blacklist`
blacklisted(prefix, bl) == truthy_set(bl) /\ prefix \in bl.val

\* aws.py line 67
prefixes_of(keys) == { split_first(k) : k \in keys }

\* the cached sources in descending order
reversed_cached == SelectSeq(<<"hp", "go">>, LAMBDA p : p \in cached)

\* aws.py line 69: sorted(iter_cached_obo())
sorted_cached == SelectSeq(SortedPrefixes, LAMBDA p : p \in cached)

\* a derivation of one of the five kinds whose getter is outside this
\* module: a read-through cache at the path of the resolved version
derive_artifact(fsys, prefix, kind, outcome) ==
    LET path == get_cache_path(prefix, kind, api_get_version(prefix))
    IN  IF path \in DOMAIN fsys THEN [fs |-> fsys, ok |-> TRUE, err |-> "none"]
        ELSE IF outcome.ok
          THEN [fs |-> Put(fsys, path, Blob(kind)), ok |-> TRUE, err |-> "none"]
        ELSE [fs |-> fsys, ok |-> FALSE, err |-> outcome.err]

\* aws.py lines 90, 99, 108, 117, 126, 135: the derivation call of a kind
derive(fsys, prefix, kind, outcome) ==
    IF kind = "names"
      THEN LET r == get_id_name_mapping(fsys, prefix, outcome)
           IN  [fs |-> r.fs, ok |-> r.res.ok, err |-> r.res.err]
      ELSE derive_artifact(fsys, prefix, kind, outcome)

\* the kind handled after the k-th
next_kind(k) == k + 1

\* --------------------------------------------------------------- upload: steps

okCount(S) ==
    Cardinality({ i \in DOMAIN uploads : uploads[i].prefix = S /\ uploads[i].ok })

\* what the operation that just ended leaves behind, noted when the next starts
HistAtCall ==
    /\ uploadedBefore' = uploadedBefore \cup { S \in Prefixes : okCount(S) > 0 }
    /\ partial' = (partial \ { S \in Prefixes : okCount(S) = NKinds })
                     \cup { S \in Prefixes : okCount(S) \in 1..(NKinds - 1) }

\* aws.py lines 83-87: entry of upload_artifacts_for_prefix
enter_ufp(prefix, client, version) ==
    [phase |-> "derive", prefix |-> prefix, k |-> 1,
     client |-> IF client = "None" THEN "default:upload_artifacts_for_prefix" ELSE client,
     version |-> IF version = "None" THEN api_get_version(prefix) ELSE version]

\* aws.py lines 64-67: the call of upload_artifacts, up to the prefix set
upload_artifacts_call(wl, bl, client) ==
    /\ CanInvoke
    /\ runs' = runs + 1
    /\ op' = "upload_artifacts"
    /\ whitelist' = wl /\ blacklist' = bl
    /\ HistAtCall
    /\ s3_client' = IF client = "None" THEN "default:upload_artifacts" ELSE client
    /\ built' = IF client = "None" THEN <<"upload_artifacts">> ELSE <<>>
    /\ derived' = <<>> /\ uploads' = <<>> /\ invoked' = <<>>
    /\ ufp' = NoUfp
    /\ listed' = DOMAIN remote
    /\ IF has_contents
         THEN /\ uploaded_prefixes' = prefixes_of(DOMAIN remote)
              /\ queue' = sorted_cached
              /\ status' = "running"
              /\ err' = "none"
         ELSE /\ uploaded_prefixes' = {}
              /\ queue' = <<>>
              /\ status' = "raised"
              /\ err' = "KeyError"
    /\ UNCHANGED <<remote, fs, cached, dlVars, cmVars, auxVars>>

\* aws.py lines 69-76: one iteration of the loop over the sorted sources, up
\* to the call of upload_artifacts_for_prefix; the return when none is left
upload_artifacts_next ==
    /\ op = "upload_artifacts" /\ status = "running" /\ ufp.phase = "none"
    /\ IF queue = <<>>
         THEN /\ status' = "returned"
              /\ UNCHANGED <<queue, ufp, invoked>>
         ELSE LET prefix == Head(queue)
              IN  /\ queue' = Tail(queue)
                  /\ IF \/ already_uploaded(prefix, uploaded_prefixes)
                        \/ not_whitelisted(prefix, whitelist)
                        \/ blacklisted(prefix, blacklist)
                       THEN UNCHANGED <<ufp, invoked>>
                       ELSE /\ invoked' = Append(invoked, prefix)
                            /\ ufp' = enter_ufp(prefix, s3_client, "None")
                  /\ UNCHANGED status
    /\ UNCHANGED <<remote, fs, cached, op, err, runs, dlVars, cmVars, auxVars, whitelist, blacklist,
                   uploaded_prefixes, s3_client, listed, built, derived, uploads, upHist>>

\* a top-level call of upload_artifacts_for_prefix
upload_artifacts_for_prefix_call(prefix, client, version) ==
    /\ CanInvoke
    /\ runs' = runs + 1
    /\ op' = "upload_artifacts_for_prefix"
    /\ status' = "running"
    /\ err' = "none"
    /\ HistAtCall
    /\ whitelist' = NoneSet /\ blacklist' = NoneSet
    /\ uploaded_prefixes' = {} /\ queue' = <<>> /\ s3_client' = "None" /\ listed' = {}
    /\ built' = IF client = "None" THEN <<"upload_artifacts_for_prefix">> ELSE <<>>
    /\ derived' = <<>> /\ uploads' = <<>> /\ invoked' = <<>>
    /\ ufp' = enter_ufp(prefix, client, version)
    /\ UNCHANGED <<remote, fs, cached, dlVars, cmVars, auxVars>>

\* the operations that run upload_artifacts_for_prefix
Uploading == op \in {"upload_artifacts", "upload_artifacts_for_prefix"}

\* the `get_...(prefix)` call of the current kind
ufp_derive ==
    /\ Uploading /\ status = "running" /\ ufp.phase = "derive"
    /\ \E outcome \in { Ok(IdOrder[1] :> <<"x">>), Raise("LoaderError") } :
         LET kind == Kinds[ufp.k]
             r == derive(fs, ufp.prefix, kind, outcome)
         IN  /\ derived' = Append(derived, <<ufp.prefix, kind>>)
             /\ fs' = r.fs
             /\ IF r.ok
                  THEN /\ ufp' = [ufp EXCEPT !.phase = "check"]
                       /\ UNCHANGED <<status, err>>
                  ELSE /\ status' = "raised"
                       /\ err' = r.err
                       /\ UNCHANGED ufp
    /\ UNCHANGED <<remote, cached, op, runs, dlVars, cmVars, auxVars, upArgs,
                   built, uploads, invoked, upHist>>

\* the end of upload_artifacts_for_prefix: back in the loop of
\* upload_artifacts, or back at the caller
ufp_return ==
    /\ ufp' = [ufp EXCEPT !.phase = "none"]
    /\ status' = IF op = "upload_artifacts" THEN status ELSE "returned"
    /\ UNCHANGED err

\* the path test, the key and the upload_file call of the current kind;
\* upload_file (lines 144-153) builds a client when it is passed none
ufp_check_upload ==
    /\ Uploading /\ status = "running" /\ ufp.phase = "check"
    /\ LET kind == Kinds[ufp.k]
           path == get_cache_path(ufp.prefix, kind, ufp.version)
           key == remote_key(ufp.prefix, kind, path)
           arg == passed_client(kind, ufp.client)
           client == IF arg = "None" THEN "default:upload_file" ELSE arg
       IN  IF artifact_missing(fs, path)
             THEN /\ status' = "raised"
                  /\ err' = "FileNotFoundError"
                  /\ UNCHANGED <<remote, ufp, uploads, built>>
             ELSE /\ built' = IF arg = "None" THEN Append(built, "upload_file") ELSE built
                  /\ \E ok \in BOOLEAN :
                       LET sent == ok /\ path \in DOMAIN fs
                       IN  /\ uploads' = Append(uploads,
                                [prefix |-> ufp.prefix, kind |-> kind, path |-> path,
                                 key |-> key, client |-> client, ok |-> sent])
                           /\ IF sent
                                THEN /\ remote' = Put(remote, key, fs[path])
                                     /\ IF ufp.k = NKinds
                                          THEN ufp_return
                                          ELSE /\ ufp' = [ufp EXCEPT !.k = next_kind(ufp.k),
                                                                     !.phase = "derive"]
                                               /\ UNCHANGED <<status, err>>
                                ELSE /\ status' = "raised"
                                     /\ err' = IF path \in DOMAIN fs
                                                 THEN "RemoteTransportError"
                                                 ELSE "FileNotFoundError"
                                     /\ UNCHANGED <<remote, ufp>>
    /\ UNCHANGED <<fs, cached, op, runs, dlVars, cmVars, auxVars, upArgs, derived, invoked, upHist>>

\* the states an upload behaviour starts from: the bucket holds an object of
\* no source, and may hold one of hp; the names file of a source may be
\* present at a versioned path (of its current version, or of another)
UnrelatedKey == <<"xx", SEP, "README">>

InitUpload ==
    /\ \E R \in SUBSET { UnrelatedKey, remote_key("hp", "names", file_name("hp", "names")) } :
         remote = [k \in R |-> Blob("remote")]
    /\ cached \in { {"go"}, {"go", "hp"} }
    /\ \E F \in SUBSET ({ get_cache_path(p, "names", api_get_version(p)) : p \in Prefixes }
                          \cup { get_cache_path("go", "names", "v2") }) :
         fs = [q \in F |-> Blob("names")]
    /\ InitCall

OptSets == { NoneSet, Some({}), Some({"go"}) }

Clients == { "None", "supplied" }

NextUpload ==
    \/ \E wl \in OptSets, bl \in { NoneSet, Some({"go"}) }, client \in Clients :
         upload_artifacts_call(wl, bl, client)
    \/ upload_artifacts_next
    \/ \E prefix \in Prefixes, client \in Clients, version \in { "None", "v2" } :
         upload_artifacts_for_prefix_call(prefix, client, version)
    \/ ufp_derive
    \/ ufp_check_upload

SpecUpload == InitUpload /\ [][NextUpload]_vars

\* ------------------------------------------------------------- list_artifacts

\* entry["Size"]: the length of an object, one unit per token of its lines
RECURSIVE object_size(_)
object_size(content) ==
    IF content = <<>> THEN 0 ELSE Len(Head(content)) + object_size(Tail(content))

\* humanize.naturalsize of a size below one kilobyte
naturalsize(n) == <<n, IF n = 1 THEN "Byte" ELSE "Bytes">>

\* the rows of a listing without its first entry
list_rows_tail(l) ==
    [i \in 1..(Len(l) - 1) |-> <<l[i + 1], naturalsize(object_size(remote[l[i + 1]]))>>]

\* aws.py lines 160-162: one (key, size) row per entry, in listing order
list_rows(l) ==
    [i \in 1..Len(l) |-> <<l[i], naturalsize(object_size(remote[l[i]]))>>]

\* aws.py lines 156-163: list_artifacts; tabulate renders the rows one per
\* line under the headers File and Size
list_artifacts_call ==
    /\ CanInvoke
    /\ runs' = runs + 1
    /\ op' = "list_artifacts"
    /\ IF has_contents
         THEN /\ \E l \in list_objects : listing' = l /\ rows' = list_rows(l)
              /\ status' = "returned"
              /\ err' = "none"
         ELSE /\ listing' = <<>> /\ rows' = <<>>
              /\ status' = "raised"
              /\ err' = "KeyError"
    /\ UNCHANGED <<remote, fs, cached, suffix, idx, issued, prevPassed, cmVars, upVars,
                   fs0, ret, git_ran>>

\* the states a behaviour of all the sync operations starts from: the bucket
\* holds up to two objects, go is cached, and the only local file is the names
\* file of go at version v2
InitSync ==
    /\ \E R \in SUBSET { UnrelatedKey, remote_key("hp", "names", file_name("hp", "names")) } :
         remote = [k \in R |-> Blob("remote")]
    /\ cached = {"go"}
    /\ fs = [q \in { get_cache_path("go", "names", "v2") } |-> Blob("names")]
    /\ InitCall

NextSync ==
    \/ NextDownload
    \/ NextUpload
    \/ list_artifacts_call

SpecSync == InitSync /\ [][NextSync]_vars

\* ------------------------------------------------------------------ version.py

\* version.py line 17
VERSION == <<"0.10.2-dev">>

Hex == <<"0", "1", "2", "3", "4", "5", "6", "7", "8", "9", "a", "b", "c", "d", "e", "f">>

\* what `git rev-parse HEAD` can print: a run of hex digits (ten stand for
\* the forty of a commit hash, three for an output shorter than eight) and
\* a newline
GitOutputs ==
    { SubSeq(Hex, i, i + 9) \o <<"\n">> : i \in 1..7 } \cup
    { SubSeq(Hex, i, i + 2) \o <<"\n">> : i \in 1..2 }

\* what check_output can do: return the output, raise CalledProcessError
\* (git exits non-zero: not a repository), or raise FileNotFoundError (no
\* git executable)
GitOutcomes ==
    { [kind |-> "ok", out |-> o] : o \in GitOutputs } \cup
    { [kind |-> "CalledProcessError", out |-> <<>>],
      [kind |-> "FileNotFoundError", out |-> <<>>] }

\* bytes.strip(): whitespace off both ends
RECURSIVE strip(_)
strip(o) ==
    IF o = <<>> THEN o
    ELSE IF Head(o) = "\n" THEN strip(Tail(o))
    ELSE IF o[Len(o)] = "\n" THEN strip(SubSeq(o, 1, Len(o) - 1))
    ELSE o

\* version.py line 32: [:8]
first8(h) == SubSeq(h, 1, IF Len(h) < 8 THEN Len(h) ELSE 8)

\* version.py lines 20-32: only CalledProcessError is caught
get_git_hash(git) ==
    IF git.kind = "CalledProcessError" THEN Ok(<<"UNHASHED">>)
    ELSE IF git.kind = "ok" THEN Ok(first8(strip(git.out)))
    ELSE Raise(git.kind)

\* version.py lines 35-37
get_version(with_git_hash, git) ==
    IF with_git_hash
      THEN LET h == get_git_hash(git)
           IN  IF h.ok THEN Ok(VERSION \o <<"-">> \o h.val) ELSE h
      ELSE Ok(VERSION)

\* a call of get_version; `git` is what running git would do
get_version_call(with_git_hash, git) ==
    /\ CanInvoke
    /\ runs' = runs + 1
    /\ op' = "get_version"
    /\ LET r == get_version(with_git_hash, git)
       IN  /\ status' = IF r.ok THEN "returned" ELSE "raised"
           /\ err' = r.err
           /\ ret' = Append(ret, [with_git_hash |-> with_git_hash, git |-> git, res |-> r])
    /\ git_ran' = Append(git_ran, with_git_hash)
    /\ UNCHANGED <<remote, fs, cached, dlVars, cmVars, upVars, fs0, rows>>

InitVersion ==
    /\ remote = << >> /\ fs = << >> /\ cached = {}
    /\ InitCall

NextVersion ==
    \E with_git_hash \in BOOLEAN, git \in GitOutcomes : get_version_call(with_git_hash, git)

SpecVersion == InitVersion /\ [][NextVersion]_vars

\* C1: when a suffix is given, no download is issued (and so no file is
\* created) for a listed key that does not end with the suffix.
C1_SuffixSkip ==
    op = "download_artifacts" => \A k \in issued : ~suffix_mismatch(suffix, k)

\* a key whose first path segment is the source S
KeyOf(S, key) == Len(key) >= 2 /\ key[1] = S /\ key[2] = SEP

\* C2: a cached source that has a key in the listing taken at the start of
\* upload_artifacts is never handed to upload_artifacts_for_prefix in that
\* run, and no object of it is uploaded.
C2_UploadSkip ==
    op = "upload_artifacts" =>
        \A S \in cached :
            (\E key \in listed : KeyOf(S, key)) =>
                /\ \A i \in DOMAIN invoked : invoked[i] # S
                /\ \A i \in DOMAIN uploads : uploads[i].prefix # S

C2_Witness ==
    /\ op = "upload_artifacts" /\ status = "returned"
    /\ whitelist = NoneSet /\ blacklist = NoneSet
    /\ "hp" \in cached /\ \E key \in listed : KeyOf("hp", key)
    /\ invoked = <<"go">>
    /\ okCount("go") = 6

\* the six keys of a source
SixKeys(S) ==
    { <<S, SEP, "cache", SEP, S, ".", "mapping", ".tsv">>,
      <<S, SEP, "cache", SEP, S, ".", "synonyms", ".tsv">>,
      <<S, SEP, "cache", SEP, S, ".", "xrefs", ".tsv">>,
      <<S, SEP, "cache", SEP, S, ".", "relations", ".tsv">>,
      <<S, SEP, S, ".", "properties", ".tsv">>,
      <<S, SEP, "cache", SEP, S, ".", "alts", ".tsv">> }

\* C4: when an earlier upload of S raised after some but not all of its six
\* objects, a later upload_artifacts_for_prefix of S, or upload_artifacts
\* whose filters let S through, in which no derivation and no transfer
\* fails, ends with all six keys of S in the bucket.
C4_RetryConsistent ==
    \A S \in partial :
        LET retried ==
                \/ op = "upload_artifacts_for_prefix" /\ ufp.prefix = S
                \/ /\ op = "upload_artifacts" /\ S \in cached
                   /\ whitelist.some => S \in whitelist.val
                   /\ blacklist.some => S \notin blacklist.val
            ended == \/ status = "returned"
                     \/ status = "raised" /\ err = "FileNotFoundError"
        IN  (retried /\ ended) => SixKeys(S) \subseteq DOMAIN remote

\* C5: upload_artifacts uploads only sources of a given allowlist (an empty
\* one included) and no source of a given denylist.
C5_AllowDeny ==
    op = "upload_artifacts" =>
        /\ whitelist.some => \A i \in DOMAIN uploads : uploads[i].prefix \in whitelist.val
        /\ blacklist.some => \A i \in DOMAIN uploads : uploads[i].prefix \notin blacklist.val

FixedOrder == <<"names", "synonyms", "xrefs", "relations", "properties", "alts">>

derivedOf(S) == SelectSeq(derived, LAMBDA d : d[1] = S)

uploadsOf(S) == SelectSeq(uploads, LAMBDA u : u.prefix = S)

\* C6: for each source the derivations called and the uploads made are
\* prefixes of the fixed order, the upload of a kind follows its derivation
\* and the completed uploads of all earlier kinds; when the derivation or
\* the existence test of kind k fails, exactly the kinds up to k were
\* derived and exactly the kinds before k uploaded, and nothing is derived
\* or uploaded afterwards.
C6_FixedOrderFailFast ==
    /\ [](\A S \in Prefixes :
            LET D == derivedOf(S)
                U == uploadsOf(S)
            IN  /\ Len(D) <= 6 /\ \A i \in DOMAIN D : D[i][2] = FixedOrder[i]
                /\ Len(U) <= Len(D) /\ Len(D) <= Len(U) + 1
                /\ \A i \in DOMAIN U : U[i].kind = FixedOrder[i] /\ (i < Len(U) => U[i].ok)
                /\ ( /\ status = "raised" /\ ufp.prefix = S
                     /\ err \in {"LoaderError", "MalformedCacheFile", "FileNotFoundError"} ) =>
                       /\ Len(D) = ufp.k /\ Len(U) = ufp.k - 1
                       /\ \A i \in DOMAIN U : U[i].ok /\ U[i].key \in DOMAIN remote)
    /\ [][status = "raised" => (runs' # runs \/ (derived' = derived /\ uploads' = uploads))]_vars

C6_Witness ==
    /\ status = "raised" /\ err = "LoaderError"
    /\ ufp.k = 4 /\ Len(derived) = 4 /\ Len(uploads) = 3

\* C7: when the file of the current kind is absent at its resolved path
\* after the derivation, the next step raises FileNotFoundError and calls no
\* upload; every upload made names a path that exists, and a completed one
\* put that file's content under its key.
C7_MissingArtifact ==
    /\ [][ ( /\ status = "running" /\ ufp.phase = "check"
             /\ get_cache_path(ufp.prefix, Kinds[ufp.k], ufp.version) \notin DOMAIN fs ) =>
               ( /\ status' = "raised" /\ err' = "FileNotFoundError"
                 /\ uploads' = uploads /\ remote' = remote ) ]_vars
    /\ [](\A i \in DOMAIN uploads :
            /\ uploads[i].path \in DOMAIN fs
            /\ uploads[i].ok => remote[uploads[i].key] = fs[uploads[i].path])

C7_Witness ==
    /\ status = "raised" /\ err = "FileNotFoundError"
    /\ ufp.k = 2 /\ Len(derived) = 2
    /\ Len(uploads) = 1 /\ uploads[1].ok

\* C8: every upload of source S goes to S/cache/<file name> for names,
\* synonyms, xrefs, relations and alts and to S/<file name> for properties,
\* the file name being the name of the local path; and the prefix set
\* upload_artifacts takes from its listing holds every source an earlier
\* operation uploaded an object of.
C8_KeyScheme ==
    /\ \A i \in DOMAIN uploads :
         LET u == uploads[i]
             fname == <<u.prefix, ".", IF u.kind = "names" THEN "mapping" ELSE u.kind, ".tsv">>
         IN  /\ endswith(u.path, <<SEP>> \o fname)
             /\ u.key = IF u.kind = "properties"
                          THEN <<u.prefix, SEP>> \o fname
                          ELSE <<u.prefix, SEP, "cache", SEP>> \o fname
             /\ u.ok => u.key \in DOMAIN remote
    /\ op = "upload_artifacts" => \A S \in uploadedBefore : <<S>> \in uploaded_prefixes

C8_Witness ==
    /\ op = "upload_artifacts" /\ status = "returned"
    /\ uploadedBefore = {"hp"}
    /\ <<"hp">> \in uploaded_prefixes
    /\ \E i \in DOMAIN uploads : uploads[i].kind = "properties" /\ uploads[i].ok
    /\ \E i \in DOMAIN uploads : uploads[i].kind = "alts" /\ uploads[i].ok

\* C3: a returned download leaves a local file for every object that passed
\* the filter; a later download issues no download for such an object; a
\* download is issued only for a destination that does not exist, and no
\* step changes or removes a file that exists.
C3_IdempotentDownload ==
    /\ [](op = "download_artifacts" =>
            /\ status = "returned" =>
                 \A k \in passing(suffix, listing) : download_path(k) \in DOMAIN fs
            /\ issued \cap prevPassed = {})
    /\ [][ /\ \A p \in DOMAIN fs : p \in DOMAIN fs' /\ fs'[p] = fs[p]
           /\ \A k \in issued' \ issued : download_path(k) \notin DOMAIN fs ]_vars

C3_Witness ==
    /\ op = "download_artifacts" /\ status = "returned" /\ runs = 2
    /\ issued = {}
    /\ \E k \in prevPassed : fs[download_path(k)] = Blob("remote")
    /\ \E k \in prevPassed : fs[download_path(k)] = Blob("stale")

\* C9: of two get_id_name_mapping calls for the same source, the first of
\* which returned a mapping (the empty one included), at most one invokes the
\* compute function, at most one writes the file, and the second returns the
\* mapping the first returned.
C9_IdempotentCompute ==
    \A i, j \in DOMAIN calls :
        (i < j /\ calls[i].prefix = calls[j].prefix /\ calls[i].res.ok) =>
            /\ ~(calls[i].computed /\ calls[j].computed)
            /\ ~(calls[i].wrote /\ calls[j].wrote)
            /\ calls[j].res = calls[i].res

tabs(line) == Cardinality({ i \in DOMAIN line : line[i] = TAB })

header_only(c) == c.file = <<join_tab(id_name_header(c.prefix))>>

malformed_row(c) ==
    /\ Len(c.file) > 1
    /\ c.file[1] = join_tab(id_name_header(c.prefix))
    /\ \E n \in 2..Len(c.file) : tabs(c.file[n]) # 1

\* C10: a call that finds the cache file neither invokes the compute
\* function nor writes; if the file is a header without data rows, or holds
\* a row that is not two columns, the call raises MalformedCacheFile.
C10_MalformedSurfaces ==
    \A n \in DOMAIN calls :
        calls[n].existed =>
            /\ ~calls[n].computed
            /\ ~calls[n].wrote
            /\ (header_only(calls[n]) \/ malformed_row(calls[n])) =>
                   calls[n].res = Raise("MalformedCacheFile")

C10_Witness ==
    /\ \E n \in DOMAIN calls :
         calls[n].existed /\ header_only(calls[n]) /\ calls[n].res.err = "MalformedCacheFile"
    /\ \E n \in DOMAIN calls :
         calls[n].existed /\ malformed_row(calls[n]) /\ calls[n].res.err = "MalformedCacheFile"

\* the position of a source in ascending source id order
rank(S) == CHOOSE i \in DOMAIN SortedPrefixes : SortedPrefixes[i] = S

\* a source upload_artifacts hands to upload_artifacts_for_prefix: cached, not
\* in the prefix set of the listing, and let through by lines 72-75
eligible(S) ==
    /\ S \in cached
    /\ ~already_uploaded(S, uploaded_prefixes)
    /\ ~not_whitelisted(S, whitelist)
    /\ ~blacklisted(S, blacklist)

\* C11: upload_artifacts calls upload_artifacts_for_prefix for the eligible
\* sources in ascending source id order, for all of them when it returns, and
\* derives and uploads for no other source; when the call for S raises, the run ends raised with that error,
\* the sources ordered after S are neither invoked, derived nor uploaded, and
\* no later step of the run derives, uploads or changes the bucket.
C11_HaltOnRaise ==
    /\ [](op = "upload_artifacts" =>
            /\ \A i, j \in DOMAIN invoked : i < j => rank(invoked[i]) < rank(invoked[j])
            /\ \A i \in DOMAIN invoked : eligible(invoked[i])
            /\ status = "returned" =>
                  \A S \in Prefixes : eligible(S) => \E i \in DOMAIN invoked : invoked[i] = S
            /\ \A i \in DOMAIN derived : \E j \in DOMAIN invoked : invoked[j] = derived[i][1]
            /\ \A i \in DOMAIN uploads : \E j \in DOMAIN invoked : invoked[j] = uploads[i].prefix
            /\ (status = "raised" /\ ufp.phase # "none") =>
                  /\ err # "none"
                  /\ invoked[Len(invoked)] = ufp.prefix
                  /\ \A S \in Prefixes :
                        rank(S) > rank(ufp.prefix) =>
                            /\ \A i \in DOMAIN invoked : invoked[i] # S
                            /\ derivedOf(S) = <<>> /\ uploadsOf(S) = <<>>)
    /\ [][(op = "upload_artifacts" /\ status = "raised") =>
             (runs' # runs \/ ( /\ invoked' = invoked /\ derived' = derived
                                /\ uploads' = uploads /\ remote' = remote
                                /\ status' = "raised" /\ err' = err ))]_vars

C11_Witness ==
    /\ op = "upload_artifacts" /\ status = "raised" /\ err = "LoaderError"
    /\ ufp.prefix = "go" /\ okCount("go") \in 1..5
    /\ eligible("hp") /\ queue = <<"hp">>
    /\ invoked = <<"go">>

\* C12: when upload_artifacts ends with the FileNotFoundError of source S,
\* every other eligible source whose own names file is in place (the ones
\* ordered after S included) has had its six objects uploaded in that run.
C12_SiblingIsolation ==
    (op = "upload_artifacts" /\ status = "raised" /\ err = "FileNotFoundError") =>
        \A S \in Prefixes \ {ufp.prefix} :
            (eligible(S) /\ get_cache_path(S, "names", api_get_version(S)) \in DOMAIN fs) =>
                okCount(S) = NKinds

\* the local files one uninterrupted pass of the loop of lines 45-54 over
\* `keys` leaves when it starts from `fsys` and every transfer succeeds
one_run(fsys, sfx, keys) ==
    LET got == { k \in keys : ~suffix_skips(sfx, k) /\ ~already_downloaded(fsys, download_path(k)) }
    IN  [p \in DOMAIN fsys \cup { download_path(k) : k \in got } |->
            IF p \in DOMAIN fsys THEN fsys[p]
            ELSE remote[CHOOSE k \in got : download_path(k) = p]]

\* C13: whatever the order of the listing, and whether or not earlier
\* downloads were interrupted by an error after some of the objects, a
\* download_artifacts that returns leaves exactly the local files one
\* uninterrupted run from the first state leaves: every object that passes
\* the filter is there, at a path of its own, with the object's content
\* unless the file was there before.
C13_ResumableDownload ==
    (op = "download_artifacts" /\ status = "returned") =>
        /\ fs = one_run(fs0, suffix, DOMAIN remote)
        /\ \A k \in passing(suffix, listing) :
              /\ download_path(k) \in DOMAIN fs
              /\ download_path(k) \notin DOMAIN fs0 => fs[download_path(k)] = remote[k]
              /\ \A k2 \in DOMAIN remote : k2 # k => download_path(k2) # download_path(k)

C13_Witness ==
    /\ op = "download_artifacts" /\ status = "returned" /\ runs = 2
    /\ Len(listing) = 3 /\ fs0 = << >>
    /\ issued # {}
    /\ \E k \in DOMAIN remote \ issued : fs[download_path(k)] = Blob("remote")

\* C14: two artifacts that differ in source, kind or version are kept in
\* different files: the names files two get_id_name_mapping calls read or
\* write differ when the calls differ in source or in version, and
\* get_cache_path gives different paths for different triples.
C14_PathInjective ==
    /\ \A i, j \in DOMAIN calls :
          <<calls[i].prefix, calls[i].version>> # <<calls[j].prefix, calls[j].version>> =>
              calls[i].path # calls[j].path
    /\ \A p1, p2 \in Prefixes, k1, k2 \in DOMAIN Kinds, v1, v2 \in Versions :
          <<p1, k1, v1>> # <<p2, k2, v2>> =>
              get_cache_path(p1, Kinds[k1], v1) # get_cache_path(p2, Kinds[k2], v2)

\* C15: list_artifacts changes neither the local files nor the bucket and
\* returns one (key, size) row per object, in listing order; no step of
\* download_artifacts changes the bucket; no step of any operation removes
\* a key from the bucket.
C15_ReadFrame ==
    /\ [][ /\ DOMAIN remote \subseteq DOMAIN remote'
           /\ op' \in {"list_artifacts", "download_artifacts"} => remote' = remote
           /\ op' = "list_artifacts" => fs' = fs ]_vars
    /\ []((op = "list_artifacts" /\ status = "returned") =>
            /\ Len(rows) = Cardinality(DOMAIN remote)
            /\ { listing[i] : i \in DOMAIN listing } = DOMAIN remote
            /\ \A i \in DOMAIN rows :
                  rows[i] = <<listing[i], naturalsize(object_size(remote[listing[i]]))>>)

C15_Witness ==
    /\ op = "list_artifacts" /\ status = "returned" /\ runs = 2
    /\ Len(rows) = 3
    /\ \E i \in DOMAIN uploads : uploads[i].ok /\ \E j \in DOMAIN rows : rows[j][1] = uploads[i].key

\* C16: when a client is supplied to upload_artifacts_for_prefix, directly
\* or through upload_artifacts, every upload_file call of the operation goes
\* through that client and the operation builds no default client.
C16_SingleHandle ==
    (Uploading /\ (s3_client = "supplied" \/ ufp.client = "supplied")) =>
        /\ \A i \in DOMAIN uploads : uploads[i].client = "supplied"
        /\ built = <<>>

\* C17: once the derivation of a kind has returned, the file exists at
\* get_cache_path(source, kind, version) for the version passed to or
\* resolved by upload_artifacts_for_prefix, so the operation never raises
\* FileNotFoundError.
C17_PathAgreement ==
    Uploading =>
        /\ (status = "running" /\ ufp.phase = "check") =>
              get_cache_path(ufp.prefix, Kinds[ufp.k], ufp.version) \in DOMAIN fs
        /\ ~(status = "raised" /\ err = "FileNotFoundError")

\* C18: on a bucket without objects download_artifacts returns having
\* issued no download, list_artifacts returns no rows, and upload_artifacts
\* takes the uploaded prefixes as empty and goes on to its sources; none of
\* the three raises for the missing "Contents".
C18_EmptyRemote ==
    /\ (op = "download_artifacts" /\ DOMAIN remote = {}) =>
          status = "returned" /\ issued = {}
    /\ (op = "list_artifacts" /\ DOMAIN remote = {}) =>
          status = "returned" /\ rows = <<>>
    /\ (op = "upload_artifacts" /\ listed = {}) =>
          uploaded_prefixes = {} /\ err # "KeyError"

\* no two identifiers of d have the same name
injective(d) == \A i, j \in DOMAIN d : d[i] = d[j] => i = j

\* C19 as stated: the keys of the result of get_name_id_mapping are the names
\* of the mapping M it inverts, each mapped to an identifier of that name,
\* and inverting the result again gives M back, for every M.
C19_InverseRoundTrip ==
    \A c \in DOMAIN calls :
        (calls[c].fn = "get_name_id_mapping" /\ calls[c].res.ok) =>
            LET M == calls[c].res.val
                R == calls[c].inv.val
            IN  /\ DOMAIN R = { M[i] : i \in DOMAIN M }
                /\ \A n \in DOMAIN R : R[n] \in DOMAIN M /\ M[R[n]] = n
                /\ dict_invert(R) = M

\* C19, amended: the keys of the result are the names of M, each mapped to
\* the last identifier of that name in the order of M's items; inverting the
\* result again gives the part of M on those identifiers, which is M exactly
\* when no two identifiers of M have the same name.
C19_InverseLastWins ==
    \A c \in DOMAIN calls :
        (calls[c].fn = "get_name_id_mapping" /\ calls[c].res.ok) =>
            LET M == calls[c].res.val
                R == calls[c].inv.val
                its == items(M)
            IN  /\ calls[c].inv.ok
                /\ DOMAIN R = { M[i] : i \in DOMAIN M }
                /\ \A n \in DOMAIN R :
                      /\ R[n] \in DOMAIN M /\ M[R[n]] = n
                      /\ \A k \in DOMAIN its :
                            its[k][2] = n =>
                                \E m \in DOMAIN its : m >= k /\ its[m] = <<R[n], n>>
                /\ dict_invert(R) = [i \in { R[n] : n \in DOMAIN R } |-> M[i]]
                /\ (dict_invert(R) = M) <=> injective(M)

C19_Witness ==
    \E c \in DOMAIN calls :
        /\ calls[c].fn = "get_name_id_mapping" /\ calls[c].res.ok
        /\ calls[c].res.val = (IdOrder[1] :> <<"x">> @@ IdOrder[2] :> <<"x">>)
        /\ calls[c].inv.val = (<<"x">> :> IdOrder[2])
        /\ calls[c].computed

\* C20: get_version(with_git_hash=False) returns VERSION and does not run
\* git; get_version(True) never raises and returns VERSION, a dash and a
\* hash part: the first characters, eight at most, of what git printed when
\* git succeeded, and UNHASHED in every other case.
C20_VersionString ==
    \A n \in DOMAIN ret :
        LET c == ret[n]
        IN  /\ ~c.with_git_hash => (c.res = Ok(VERSION) /\ ~git_ran[n])
            /\ c.with_git_hash =>
                  /\ c.res.ok
                  /\ \E h \in { SubSeq(c.res.val, 3, Len(c.res.val)) } :
                        /\ c.res.val = VERSION \o <<"-">> \o h
                        /\ c.git.kind = "ok" =>
                              /\ Len(h) <= 8
                              /\ h = SubSeq(c.git.out, 1, Len(h))
                              /\ Len(h) = 8 \/ h \o <<"\n">> = c.git.out
                        /\ c.git.kind # "ok" => h = <<"UNHASHED">>

====
